---- MODULE Spec2Model ----
(***************************************************************************)
(* The GTEx demo pipeline: download_gtex.py (the Fetcher) and etl_gtex.py  *)
(* (the Transformer), as one state machine over the shared filesystem.     *)
(*                                                                         *)
(* A file name is a record [stem, ext] (ext is what follows the last dot); *)
(* a file is a record telling whether it exists, whether its bytes are a   *)
(* gzip stream, whether all of its bytes were written, and the text it     *)
(* carries (a GCT header line and a number of gene rows, or metadata rows).*)
(* A column name of the parsed matrix is a pair <<token, k>>: k = 0 is the *)
(* token itself, k > 0 is pandas' "token.k" for the k-th repeat.           *)
(***************************************************************************)
EXTENDS Integers, Sequences, FiniteSets, TLC

VARIABLES
    raw,        \* data_raw/ : file name -> file
    pqFile,     \* data_parquet/gtex_liver.parquet
    mlruns,     \* the tracking store: sequence of run records
    prog,       \* the program the operator launched last: "none", "fetcher", "etl"
    pc,         \* its position
    launches,   \* programs launched so far
    steps,      \* Transformer: the steps this run has entered, in order
    err,        \* the uncaught exception that ended this run ("" when none)
    stdout,     \* what this run has printed
    liver_ids,  \* etl_gtex.py:38
    col_names,  \* etl_gtex.py:44
    keep_ids,   \* etl_gtex.py:47
    df,         \* etl_gtex.py:51-58
    idx,        \* Fetcher: index into FILES of the file being fetched
    transfers,  \* network transfers started so far (urlretrieve calls that opened the URL)
    fetchDone   \* some Fetcher run has ended without an exception

vars == <<raw, pqFile, mlruns, prog, pc, launches, steps, err, stdout,
          liver_ids, col_names, keep_ids, df, idx, transfers, fetchDone>>

----------------------------------------------------------------------------
\* Bounds of the model.
MaxMetaRows == 2
MaxHdrSamples == 2
MaxGenes == 1
MaxLaunches == 3

SeqsUpTo(S, n) == UNION {[1..k -> S] : k \in 0..n}
Range(s) == {s[i] : i \in 1..Len(s)}

----------------------------------------------------------------------------
\* Names and paths.
Path(stem, ext) == [stem |-> stem, ext |-> ext]

gct_path == Path("GTEx_Analysis_2017-06-05_v8_RNASeQCv1.1.9_gene_reads.gct", "gz")
meta_path == Path("GTEx_Analysis_v8_Annotations_SampleAttributesDS", "txt")

FILES ==
    << [tag |-> "gct", fname |-> Path("GTEx_gene_reads.gct", "gz"),
        url |-> "GTEx_Analysis_2017-06-05_v8_RNASeQCv1.1.9_gene_reads.gct.gz"],
       [tag |-> "samp", fname |-> Path("GTEx_sample_attrs", "txt"),
        url |-> "GTEx_Analysis_v8_Annotations_SampleAttributesDS.txt"] >>

RawNames == {gct_path, meta_path} \cup {FILES[i].fname : i \in 1..Len(FILES)}

----------------------------------------------------------------------------
\* Files.
NoFile ==
    [exists |-> FALSE, complete |-> FALSE, gz |-> FALSE,
     header |-> <<>>, genes |-> 0, rows |-> <<>>]
GctFile(gz, header, genes) ==
    [exists |-> TRUE, complete |-> TRUE, gz |-> gz,
     header |-> header, genes |-> genes, rows |-> <<>>]
MetaFile(gz, rows) ==
    [exists |-> TRUE, complete |-> TRUE, gz |-> gz,
     header |-> <<>>, genes |-> 0, rows |-> rows]

\* The inputs the model draws from.
SampleIds == {"A", "B", "C"}
MetaIds == {"A", "B", "Name"}
Tissues == {"Liver", "Lung"}
LabelPairs == { <<"Name", "Description">>, <<"Gene", "Description">>,
                <<"Gene", "Symbol">> }
MetaRow == [SAMPID : MetaIds, SMTSD : Tissues]
GctFiles ==
    { GctFile(z, lp \o s, n) :
        z \in BOOLEAN, lp \in LabelPairs,
        s \in SeqsUpTo(SampleIds, MaxHdrSamples), n \in 0..MaxGenes }
MetaFiles == { MetaFile(z, r) : z \in BOOLEAN, r \in SeqsUpTo(MetaRow, MaxMetaRows) }

\* What the two URLs serve.
Remote(url) ==
    IF url = FILES[1].url
    THEN GctFile(TRUE, <<"Name", "Description", "A", "B">>, 1)
    ELSE MetaFile(FALSE, << [SAMPID |-> "A", SMTSD |-> "Liver"],
                            [SAMPID |-> "B", SMTSD |-> "Lung"] >>)

----------------------------------------------------------------------------
\* Opening a file.
GzipMagic == <<31, 139>>
\* The first two bytes of the stored file: the gzip magic, or the first two
\* characters of the text ("#1" of a GCT file, "SA" of the metadata table).
Magic(f) ==
    IF f.gz THEN GzipMagic
    ELSE IF f.header # <<>> THEN <<35, 49>> ELSE <<83, 65>>

\* A handle: ok tells whether reading it yields the file's text.
GzipOpen(f) == [ok |-> f.gz, file |-> f]      \* gzip.open of a non-gzip file: BadGzipFile
TextOpen(f) == [ok |-> ~f.gz, file |-> f]     \* text read of gzip bytes: UnicodeDecodeError

smart_open(f) == IF Magic(f) = GzipMagic THEN GzipOpen(f) ELSE TextOpen(f)

\* pandas given a path: compression="infer" goes by the extension.
InferCompression(path) == IF path.ext = "gz" THEN "gzip" ELSE "none"
PandasOpenPath(path, f) ==
    IF InferCompression(path) = "gzip" THEN GzipOpen(f) ELSE TextOpen(f)

----------------------------------------------------------------------------
\* The Transformer's pure steps.

\* etl_gtex.py:38  meta.loc[meta.SMTSD == "Liver", "SAMPID"]
LiverIds(rows) ==
    LET sel == SelectSeq(rows, LAMBDA r : r.SMTSD = "Liver")
    IN  [i \in 1..Len(sel) |-> sel[i].SAMPID]

\* A variant that forgets to drop the two leading labels: set(col_names).
gct_samples_all(cols) == Range(cols)

\* etl_gtex.py:46  set(col_names[2:])
gct_samples(cols) == {cols[i] : i \in 3..Len(cols)}

\* etl_gtex.py:47  [sid for sid in liver_ids if sid in gct_samples]
KeepIds(liver, cols) == SelectSeq(liver, LAMBDA sid : sid \in gct_samples(cols))

\* pandas' names for the header tokens: a repeated token t becomes "t.k".
Mangle(header) ==
    [i \in 1..Len(header) |->
        <<header[i], Cardinality({j \in 1..(i - 1) : header[j] = header[i]})>>]

\* etl_gtex.py:51-56  pd.read_csv(handle, sep="\t", skiprows=2, usecols=[...]):
\* every name of usecols must be a column of the file (ValueError otherwise);
\* usecols is a set, and the columns come out in the file's order.
ReadCsv(f, usecols) ==
    LET names == Mangle(f.header)
        want  == {<<u, 0>> : u \in Range(usecols)}
        pos   == SelectSeq([i \in 1..Len(names) |-> i], LAMBDA i : names[i] \in want)
    IN  [ok    |-> want \subseteq Range(names),
         cols  |-> [k \in 1..Len(pos) |-> names[pos[k]]],
         src   |-> pos,
         nrows |-> f.genes]

\* etl_gtex.py:58  df.rename(columns={"Name": "gene_id", "Description": "gene_symbol"})
Rename(cols) ==
    [k \in 1..Len(cols) |->
        IF cols[k] = <<"Name", 0>> THEN <<"gene_id", 0>>
        ELSE IF cols[k] = <<"Description", 0>> THEN <<"gene_symbol", 0>>
        ELSE cols[k]]

NoDf == [cols |-> <<>>, src |-> <<>>, nrows |-> 0]
NoPq == [exists |-> FALSE, complete |-> FALSE, cols |-> <<>>, src |-> <<>>,
         nrows |-> 0, run |-> 0]

Msg(m, file, n) == [msg |-> m, file |-> file, n |-> n]
NoPath == Path("", "")

----------------------------------------------------------------------------
\* The operator launches one program at a time.
Idle == pc \in {"idle", "done", "failed"}

Launch(p, first) ==
    /\ prog' = p
    /\ pc' = first
    /\ launches' = launches + 1
    /\ steps' = <<>>
    /\ err' = ""
    /\ stdout' = <<>>
    /\ liver_ids' = <<>>
    /\ col_names' = <<>>
    /\ keep_ids' = <<>>
    /\ df' = NoDf
    /\ idx' = 1

\* An uncaught exception ends the run.
Fail(e) == pc' = "failed" /\ err' = e

----------------------------------------------------------------------------
\* etl_gtex.py, the module body.

StartETL ==
    /\ Idle
    /\ launches < MaxLaunches
    /\ Launch("etl", "load_meta")
    /\ UNCHANGED <<raw, pqFile, mlruns, transfers, fetchDone>>

\* etl_gtex.py:37-39
LoadMeta ==
    /\ prog = "etl" /\ pc = "load_meta"
    /\ steps' = Append(steps, "load_meta")
    /\ LET f == raw[meta_path]
           h == PandasOpenPath(meta_path, f)
       IN  IF ~f.exists
           THEN Fail("missing") /\ UNCHANGED <<liver_ids, stdout>>
           ELSE IF ~h.ok
           THEN Fail("decode") /\ UNCHANGED <<liver_ids, stdout>>
           ELSE /\ liver_ids' = LiverIds(h.file.rows)
                /\ stdout' = Append(stdout, Msg("liver samples", NoPath, Len(liver_ids')))
                /\ pc' = "discover"
                /\ err' = err
    /\ UNCHANGED <<raw, pqFile, mlruns, prog, launches, col_names, keep_ids, df,
                   idx, transfers, fetchDone>>

\* etl_gtex.py:42-48
Discover ==
    /\ prog = "etl" /\ pc = "discover"
    /\ steps' = Append(steps, "discover")
    /\ LET f == raw[gct_path]
           h == smart_open(f)
       IN  IF ~f.exists
           THEN Fail("missing") /\ UNCHANGED <<col_names, keep_ids, stdout>>
           ELSE IF ~h.ok
           THEN Fail("decode") /\ UNCHANGED <<col_names, keep_ids, stdout>>
           ELSE /\ col_names' = h.file.header
                /\ keep_ids' = KeepIds(liver_ids, col_names')
                /\ stdout' = Append(stdout, Msg("found in GCT", NoPath, Len(keep_ids')))
                /\ pc' = "load_matrix"
                /\ err' = err
    /\ UNCHANGED <<raw, pqFile, mlruns, prog, launches, liver_ids, df,
                   idx, transfers, fetchDone>>

\* etl_gtex.py:51-58
LoadMatrix ==
    /\ prog = "etl" /\ pc = "load_matrix"
    /\ steps' = Append(steps, "load_matrix")
    /\ LET f == raw[gct_path]
           h == smart_open(f)
           t == ReadCsv(h.file, <<"Name", "Description">> \o keep_ids)
       IN  IF ~f.exists
           THEN Fail("missing") /\ df' = df
           ELSE IF ~h.ok
           THEN Fail("decode") /\ df' = df
           ELSE IF ~t.ok
           THEN Fail("usecols") /\ df' = df
           ELSE /\ df' = [cols |-> Rename(t.cols), src |-> t.src, nrows |-> t.nrows]
                /\ pc' = "persist"
                /\ err' = err
    /\ UNCHANGED <<raw, pqFile, mlruns, prog, launches, stdout, liver_ids, col_names,
                   keep_ids, idx, transfers, fetchDone>>

\* etl_gtex.py:59-60  pq.write_table opens parquet_out for writing, in place.
PersistOpen ==
    /\ prog = "etl" /\ pc = "persist"
    /\ steps' = Append(steps, "persist")
    /\ \/ /\ pqFile' = [exists |-> TRUE, complete |-> FALSE, cols |-> <<>>,
                          src |-> <<>>, nrows |-> 0, run |-> launches]
          /\ pc' = "writing"
          /\ err' = err
       \/ /\ Fail("io")
          /\ pqFile' = pqFile
    /\ UNCHANGED <<raw, mlruns, prog, launches, stdout, liver_ids, col_names,
                   keep_ids, df, idx, transfers, fetchDone>>

\* etl_gtex.py:60-61  the write runs to its end and the file is closed.
PersistClose ==
    /\ prog = "etl" /\ pc = "writing"
    /\ pqFile' = [exists |-> TRUE, complete |-> TRUE, cols |-> df.cols,
                   src |-> df.src, nrows |-> df.nrows, run |-> launches]
    /\ stdout' = Append(stdout, Msg("Parquet saved", NoPath, 0))
    /\ pc' = "record"
    /\ UNCHANGED <<raw, mlruns, prog, launches, steps, err, liver_ids, col_names,
                   keep_ids, df, idx, transfers, fetchDone>>

\* A variant that goes back to the persist step when the write fails.
PersistFail_retry ==
    /\ prog = "etl" /\ pc = "writing"
    /\ pc' = "persist"
    /\ UNCHANGED <<raw, pqFile, mlruns, prog, launches, steps, err, stdout, liver_ids,
                   col_names, keep_ids, df, idx, transfers, fetchDone>>

\* etl_gtex.py:60  the write fails, or the process is killed, part-way.
PersistFail ==
    /\ prog = "etl" /\ pc = "writing"
    /\ Fail("io")
    /\ UNCHANGED <<raw, pqFile, mlruns, prog, launches, steps, stdout, liver_ids,
                   col_names, keep_ids, df, idx, transfers, fetchDone>>

\* etl_gtex.py:64-66  mlflow.start_run creates the run.
TrackStart ==
    /\ prog = "etl" /\ pc = "record"
    /\ steps' = Append(steps, "record")
    /\ mlruns' = Append(mlruns, [run |-> launches, status |-> "RUNNING",
                                  params |-> <<>>, metrics |-> <<>>, artifact |-> NoPq])
    /\ pc' = "logging"
    /\ UNCHANGED <<raw, pqFile, prog, launches, err, stdout, liver_ids, col_names,
                   keep_ids, df, idx, transfers, fetchDone>>

\* etl_gtex.py:67-71
TrackLog ==
    /\ prog = "etl" /\ pc = "logging"
    /\ mlruns' = [mlruns EXCEPT ![Len(mlruns)] =
                     [run |-> launches, status |-> "FINISHED",
                      params |-> <<gct_path, meta_path>>,
                      metrics |-> <<Len(liver_ids), df.nrows>>,
                      artifact |-> pqFile]]
    /\ pc' = "done"
    /\ UNCHANGED <<raw, pqFile, prog, launches, steps, err, stdout, liver_ids,
                   col_names, keep_ids, df, idx, transfers, fetchDone>>

\* etl_gtex.py:66-71  an exception inside the with block marks the run FAILED.
TrackFail ==
    /\ prog = "etl" /\ pc = "logging"
    /\ mlruns' = [mlruns EXCEPT ![Len(mlruns)].status = "FAILED"]
    /\ Fail("io")
    /\ UNCHANGED <<raw, pqFile, prog, launches, steps, stdout, liver_ids,
                   col_names, keep_ids, df, idx, transfers, fetchDone>>

----------------------------------------------------------------------------
\* download_gtex.py

\* A variant that never finds the destination, and one that also wants the
\* destination to hold the whole content.
DestExists_never(f) == FALSE
DestExists_whole(f) == f.exists /\ f.complete

\* download_gtex.py:37  dest.exists()
DestExists(f) == f.exists

StartFetcher ==
    /\ Idle
    /\ launches < MaxLaunches
    /\ Launch("fetcher", "fetch")
    /\ UNCHANGED <<raw, pqFile, mlruns, transfers, fetchDone>>

\* download_gtex.py:47-48  the loop over FILES moves on, or the program ends.
Advance ==
    IF idx = Len(FILES)
    THEN pc' = "done" /\ idx' = idx /\ fetchDone' = TRUE
    ELSE pc' = "fetch" /\ idx' = idx + 1 /\ fetchDone' = fetchDone

\* download_gtex.py:36-39
FetchSkip ==
    /\ prog = "fetcher" /\ pc = "fetch"
    /\ DestExists(raw[FILES[idx].fname])
    /\ stdout' = Append(stdout, Msg("exists, skip", FILES[idx].fname, 0))
    /\ Advance
    /\ UNCHANGED <<raw, pqFile, mlruns, prog, launches, steps, err, liver_ids,
                   col_names, keep_ids, df, transfers>>

\* download_gtex.py:40-41  urlretrieve opens the URL, then creates dest and
\* copies block by block; the URL may fail to open, before dest is touched.
FetchOpen ==
    /\ prog = "fetcher" /\ pc = "fetch"
    /\ ~DestExists(raw[FILES[idx].fname])
    /\ stdout' = Append(stdout, Msg("downloading", FILES[idx].fname, 0))
    /\ \/ /\ raw' = [raw EXCEPT ![FILES[idx].fname] =
                         [Remote(FILES[idx].url) EXCEPT !.complete = FALSE]]
          /\ transfers' = transfers + 1
          /\ pc' = "transfer"
          /\ err' = err
       \/ /\ Fail("net")
          /\ UNCHANGED <<raw, transfers>>
    /\ UNCHANGED <<pqFile, mlruns, prog, launches, steps, liver_ids, col_names,
                   keep_ids, df, idx, fetchDone>>

\* download_gtex.py:41-43  the copy reaches the end of the content.
FetchSave ==
    /\ prog = "fetcher" /\ pc = "transfer"
    /\ raw' = [raw EXCEPT ![FILES[idx].fname] = Remote(FILES[idx].url)]
    /\ stdout' = Append(stdout, Msg("saved", FILES[idx].fname, 0))
    /\ Advance
    /\ UNCHANGED <<pqFile, mlruns, prog, launches, steps, err, liver_ids,
                   col_names, keep_ids, df, transfers>>

\* download_gtex.py:41  the transfer breaks part-way: the exception is not
\* caught and nothing removes what was written.
FetchAbort ==
    /\ prog = "fetcher" /\ pc = "transfer"
    /\ Fail("net")
    /\ UNCHANGED <<raw, pqFile, mlruns, prog, launches, steps, stdout, liver_ids,
                   col_names, keep_ids, df, idx, transfers, fetchDone>>

----------------------------------------------------------------------------
\* Specifications.

InitRun ==
    /\ pqFile = NoPq
    /\ mlruns = <<>>
    /\ prog = "none"
    /\ pc = "idle"
    /\ launches = 0
    /\ steps = <<>>
    /\ err = ""
    /\ stdout = <<>>
    /\ liver_ids = <<>>
    /\ col_names = <<>>
    /\ keep_ids = <<>>
    /\ df = NoDf
    /\ idx = 1
    /\ transfers = 0
    /\ fetchDone = FALSE

RawWith(g, m) ==
    [n \in RawNames |-> IF n = gct_path THEN g ELSE IF n = meta_path THEN m ELSE NoFile]

\* The two programs on a raw-input directory that is empty, or holds files the
\* operator has put there under the names the Transformer opens.
Init ==
    /\ \E g \in {NoFile, Remote(FILES[1].url)}, m \in {NoFile, Remote(FILES[2].url)} :
          raw = RawWith(g, m)
    /\ InitRun

Transformer ==
    \/ LoadMeta \/ Discover \/ LoadMatrix
    \/ PersistOpen \/ PersistClose \/ PersistFail
    \/ TrackStart \/ TrackLog \/ TrackFail

Fetcher == FetchSkip \/ FetchOpen \/ FetchSave \/ FetchAbort

Next == StartFetcher \/ Fetcher \/ StartETL \/ Transformer

Spec == Init /\ [][Next]_vars

\* One Transformer run on every input pair within the bounds.
InitETL ==
    /\ \E g \in GctFiles \cup {NoFile}, m \in MetaFiles \cup {NoFile} :
          raw = RawWith(g, m)
    /\ InitRun

NextETL == (launches = 0 /\ StartETL) \/ Transformer

SpecETL == InitETL /\ [][NextETL]_vars

----------------------------------------------------------------------------
\* Properties.

GeneId == <<"gene_id", 0>>
GeneSymbol == <<"gene_symbol", 0>>

\* The Transformer run under way has got past a step when it has printed the
\* step's report.
Printed(m) == \E i \in 1..Len(stdout) : stdout[i].msg = m
Discovered == prog = "etl" /\ Printed("found in GCT")
\* The output file is whole and was written by the run under way.
Written ==
    /\ prog = "etl"
    /\ pqFile.exists /\ pqFile.complete /\ pqFile.run = launches

\* sub is full restricted to the positions in P, in full's order.
Restricts(sub, full, P) ==
    \E f \in [1..Len(sub) -> 1..Len(full)] :
        /\ \A a, b \in 1..Len(sub) : a < b => f[a] < f[b]
        /\ {f[k] : k \in 1..Len(sub)} = P
        /\ \A k \in 1..Len(sub) : sub[k] = full[f[k]]

\* s without the later repeats of an element.
Dedup(s) ==
    LET firsts == SelectSeq([i \in 1..Len(s) |-> i],
                            LAMBDA i : \A j \in 1..(i - 1) : s[j] # s[i])
    IN  [k \in 1..Len(firsts) |-> s[firsts[k]]]

\* The columns of the output table other than gene_id and gene_symbol.
SampleCols(cols) == SelectSeq(cols, LAMBDA c : c \notin {GeneId, GeneSymbol})

\* The sample identifiers of the matrix file: its third line after two tokens.
Universe == LET h == raw[gct_path].header IN {h[i] : i \in 3..Len(h)}

\* C1: the sample columns of the output table the Transformer has written
\* are the effective filter set, without repeats, in the order in which the
\* identifiers occur in the metadata candidate set.
C1_ColumnsInCandidateOrder ==
    Written =>
        SampleCols(pqFile.cols) =
            [k \in 1..Len(Dedup(keep_ids)) |-> <<Dedup(keep_ids)[k], 0>>]

\* C2: no pass over an input file that exists ends in a decoding failure:
\* whether the file is decompressed follows its first two bytes, whatever
\* its extension, for the metadata table and for the matrix alike.
C2_OpenedByMagic ==
    (prog = "etl" /\ raw[meta_path].exists /\ raw[gct_path].exists) => err # "decode"

\* C3: once a Fetcher run has ended in success, both files the Transformer
\* opens exist under the names it uses, and a Transformer run does not fail
\* for a missing input.
C3_FetchedFilesAreTheInputs ==
    fetchDone =>
        /\ raw[gct_path].exists /\ raw[meta_path].exists
        /\ prog = "etl" => err # "missing"

\* C4: when the file fetch is asked for already exists, the step makes no
\* transfer, reports a skip and leaves the raw-input directory as it is; and
\* once a Fetcher run has ended in success, no later step of any run changes
\* either of the two files.
C4_FetchIdempotent ==
    [][ /\ (prog = "fetcher" /\ pc = "fetch" /\ raw[FILES[idx].fname].exists) =>
              /\ raw' = raw
              /\ transfers' = transfers
              /\ stdout' = Append(stdout, Msg("exists, skip", FILES[idx].fname, 0))
        /\ fetchDone =>
              \A i \in 1..Len(FILES) : raw'[FILES[i].fname] = raw[FILES[i].fname]
      ]_vars

\* C4 witness: a Fetcher run that skipped both files, after transfers that
\* saved them whole, has ended in success.
C4_Witness ==
    /\ prog = "fetcher" /\ pc = "done"
    /\ transfers = 2
    /\ \A i \in 1..Len(FILES) : raw[FILES[i].fname] = Remote(FILES[i].url)
    /\ stdout = [i \in 1..Len(FILES) |-> Msg("exists, skip", FILES[i].fname, 0)]

\* C5: the effective filter set is the candidate set (SAMPID of the rows
\* whose SMTSD is "Liver", in row order) restricted to the identifiers of
\* the matrix's third line after its first two tokens: same members, same
\* relative order, and no longer than the candidate set.
C5_EffectiveFilterSet ==
    Discovered =>
        LET rows == raw[meta_path].rows
            ids  == [i \in 1..Len(rows) |-> rows[i].SAMPID]
        IN  /\ Restricts(liver_ids, ids, {i \in 1..Len(rows) : rows[i].SMTSD = "Liver"})
            /\ Restricts(keep_ids, liver_ids,
                         {i \in 1..Len(liver_ids) : liver_ids[i] \in Universe})
            /\ \A sid \in MetaIds \cup SampleIds :
                  sid \in Range(keep_ids) <=> (sid \in Range(liver_ids) /\ sid \in Universe)
            /\ Len(keep_ids) <= Len(liver_ids)

\* C5 witness: a run whose effective filter set is not empty and is shorter
\* than its candidate set.
C5_Witness ==
    /\ Discovered
    /\ keep_ids # <<>>
    /\ Len(keep_ids) < Len(liver_ids)

\* C6: on every input pair that exists, the run does not fail over the
\* data, and the table it writes has one row per gene row of the matrix,
\* with the columns gene_id and gene_symbol alone when the effective filter
\* set is empty.
C6_EmptyFilterSetIsNoError ==
    (prog = "etl" /\ raw[meta_path].exists /\ raw[gct_path].exists) =>
        /\ err \notin {"missing", "decode", "usecols"}
        /\ Written =>
              /\ pqFile.nrows = raw[gct_path].genes
              /\ keep_ids = <<>> => pqFile.cols = <<GeneId, GeneSymbol>>

\* C7: in every state, the file at the output path is whole unless the run
\* has failed.
C7_PersistAtomic ==
    (pqFile.exists /\ ~pqFile.complete) => (prog = "etl" /\ pc = "failed")

\* C8: a truncated destination file counts as present: fetch skips it
\* without a transfer, and no step but the transfer that is writing it ever
\* changes it.
C8_TruncatedFileSkipped ==
    [][ /\ ( /\ prog = "fetcher" /\ pc = "fetch"
             /\ raw[FILES[idx].fname].exists
             /\ ~raw[FILES[idx].fname].complete ) =>
              /\ raw' = raw
              /\ transfers' = transfers
              /\ stdout' = Append(stdout, Msg("exists, skip", FILES[idx].fname, 0))
        /\ \A i \in 1..Len(FILES) :
              ( /\ raw[FILES[i].fname].exists
                /\ ~raw[FILES[i].fname].complete
                /\ ~(prog = "fetcher" /\ pc = "transfer" /\ idx = i) ) =>
                  raw'[FILES[i].fname] = raw[FILES[i].fname]
      ]_vars

\* C8 witness: a Fetcher run has ended in success after reporting a skip
\* for a file that is truncated.
C8_Witness ==
    /\ prog = "fetcher" /\ pc = "done"
    /\ \E i \in 1..Len(FILES) :
          /\ raw[FILES[i].fname].exists
          /\ ~raw[FILES[i].fname].complete
          /\ Msg("exists, skip", FILES[i].fname, 0) \in Range(stdout)

\* The Transformer's steps, in order.
Pipeline == <<"load_meta", "discover", "load_matrix", "persist", "record">>
RunRecorded == \E i \in 1..Len(mlruns) : mlruns[i].run = launches

\* C9: a Transformer run enters the steps of the pipeline in order, each at
\* most once; its run record exists only once the output table it computed
\* is written whole; and a run that has failed in a step before the record
\* step has no run record.
C9_LinearPipeline ==
    prog = "etl" =>
        /\ Len(steps) <= Len(Pipeline)
        /\ \A i \in 1..Len(steps) : steps[i] = Pipeline[i]
        /\ RunRecorded =>
              /\ Written
              /\ pqFile.cols = df.cols /\ pqFile.nrows = df.nrows
        /\ (pc = "failed" /\ steps[Len(steps)] # "record") => ~RunRecorded

\* C9 witness: a run that failed in the persist step and has no run record,
\* after an earlier run that got its record.
C9_Witness ==
    /\ prog = "etl" /\ pc = "failed"
    /\ steps = <<"load_meta", "discover", "load_matrix", "persist">>
    /\ pqFile.exists /\ ~pqFile.complete
    /\ mlruns # <<>>
    /\ ~RunRecorded

\* C10: whatever the two leading labels of the matrix's third line are, the
\* load step materializes the two leading columns and they are named
\* gene_id and gene_symbol.
C10_LabelsDecoupled ==
    ( /\ prog = "etl"
      /\ "load_matrix" \in Range(steps)
      /\ Len(raw[gct_path].header) >= 2 ) =>
        /\ err # "usecols"
        /\ Len(df.cols) >= 2
        /\ df.cols[1] = GeneId
        /\ df.cols[2] = GeneSymbol

====
